---------------------------- MODULE Spec2Model ----------------------------
(***************************************************************************)
(* Model of the IP range calculator (src/get_ip_range.py): the three tools *)
(* get_ip_range, get_ip_range_summary and validate_ip, together with the   *)
(* parts of Python's ipaddress module they call.                           *)
(*                                                                         *)
(* A Python str is a sequence of one-character strings.  A Python int that *)
(* may reach 2^32 is a pair <<hi, lo>> of 16-bit halves (value             *)
(* hi * 65536 + lo), since TLC's integers stop at 2^31 - 1.  An IPv6       *)
(* address is its sequence of eight 16-bit hextets.                        *)
(***************************************************************************)
EXTENDS Integers, Sequences, FiniteSets, TLC

(***************************************************************************)
(* Text: str methods and int()/format() as the code uses them.             *)
(***************************************************************************)
DecDigits == <<"0", "1", "2", "3", "4", "5", "6", "7", "8", "9">>

HexDigits == DecDigits \o <<"a", "b", "c", "d", "e", "f">>

DigitChars == {DecDigits[i] : i \in 1..Len(DecDigits)}

HexChars == {HexDigits[i] : i \in 1..Len(HexDigits)} \cup {"A", "B", "C", "D", "E", "F"}

HexVal(c) ==
    CASE c \in {"a", "A"} -> 10
      [] c \in {"b", "B"} -> 11
      [] c \in {"c", "C"} -> 12
      [] c \in {"d", "D"} -> 13
      [] c \in {"e", "E"} -> 14
      [] c \in {"f", "F"} -> 15
      [] OTHER -> CHOOSE d \in 0..9 : DecDigits[d + 1] = c

\* str.isascii() and str.isdigit(): non-empty, decimal digits only
IsDigitStr(s) == Len(s) > 0 /\ \A i \in 1..Len(s) : s[i] \in DigitChars

RECURSIVE IntOfDigits(_, _)
\* int(s, base) of a string of digits of that base
IntOfDigits(s, base) ==
    IF Len(s) = 0 THEN 0
    ELSE IntOfDigits(SubSeq(s, 1, Len(s) - 1), base) * base + HexVal(s[Len(s)])

RECURSIVE FormatInt(_, _)
\* str(n) for base 10, '%x' % n for base 16
FormatInt(n, base) ==
    IF n < base THEN <<HexDigits[n + 1]>>
    ELSE FormatInt(n \div base, base) \o <<HexDigits[(n % base) + 1]>>

RECURSIVE ZeroFill(_, _)
\* format(n, '08b') pads on the left with "0" to the width
ZeroFill(s, width) == IF Len(s) >= width THEN s ELSE ZeroFill(<<"0">> \o s, width)

RECURSIVE Split(_, _)
\* s.split(sep) for a one-character separator
Split(s, sep) ==
    IF \A i \in 1..Len(s) : s[i] # sep THEN <<s>>
    ELSE LET k == CHOOSE i \in 1..Len(s) :
                      s[i] = sep /\ \A j \in 1..(i - 1) : s[j] # sep
         IN  <<SubSeq(s, 1, k - 1)>> \o Split(SubSeq(s, k + 1, Len(s)), sep)

RECURSIVE Join(_, _)
\* sep.join(parts)
Join(parts, sep) ==
    IF Len(parts) = 0 THEN <<>>
    ELSE IF Len(parts) = 1 THEN parts[1]
    ELSE parts[1] \o sep \o Join(Tail(parts), sep)

\* int(s) on the strings the code hands it: ValueError unless decimal digits
IntOfStr(s) ==
    IF IsDigitStr(s) THEN [ok |-> TRUE, value |-> IntOfDigits(s, 10)]
    ELSE [ok |-> FALSE, value |-> 0]

(***************************************************************************)
(* Python ints up to 2^32 as <<hi, lo>>, and the bit operations on them.   *)
(***************************************************************************)
Half == 2 ^ 16

Pow2(n) == 2 ^ n

U32(hi, lo) == <<hi, lo>>

\* an int that fits TLC's integers, as a pair
ToU32(n) == <<n \div Half, n % Half>>

U32Add(a, b) ==
    LET lo == a[2] + b[2] IN <<a[1] + b[1] + (lo \div Half), lo % Half>>

\* a - b for a >= b
U32Sub(a, b) ==
    IF a[2] >= b[2] THEN <<a[1] - b[1], a[2] - b[2]>>
    ELSE <<a[1] - b[1] - 1, a[2] + Half - b[2]>>

U32Le(a, b) == a[1] < b[1] \/ (a[1] = b[1] /\ a[2] <= b[2])

U32Lt(a, b) == a[1] < b[1] \/ (a[1] = b[1] /\ a[2] < b[2])

\* a // k and a * k for a small int k >= 1
U32Div(a, k) == <<a[1] \div k, (((a[1] % k) * Half) + a[2]) \div k>>

U32Mul(a, k) ==
    LET lo == a[2] * k IN <<(a[1] * k) + (lo \div Half), lo % Half>>

\* 2 ** h for h in 0..32
U32Pow2(h) == IF h < 16 THEN <<0, Pow2(h)>> ELSE <<Pow2(h - 16), 0>>

RECURSIVE BitAnd16(_, _, _)
\* x & y on n-bit halves
BitAnd16(x, y, n) ==
    IF n = 0 THEN 0
    ELSE (2 * BitAnd16(x \div 2, y \div 2, n - 1)) + ((x % 2) * (y % 2))

RECURSIVE BitOr16(_, _, _)
\* x | y on n-bit halves
BitOr16(x, y, n) ==
    IF n = 0 THEN 0
    ELSE (2 * BitOr16(x \div 2, y \div 2, n - 1))
         + (IF (x % 2) + (y % 2) > 0 THEN 1 ELSE 0)

U32And(a, b) == <<BitAnd16(a[1], b[1], 16), BitAnd16(a[2], b[2], 16)>>

U32Or(a, b) == <<BitOr16(a[1], b[1], 16), BitOr16(a[2], b[2], 16)>>

\* IPv4Address._ALL_ONES = 2**32 - 1
ALL_ONES == <<Half - 1, Half - 1>>

\* x ^ ALL_ONES
U32Not(a) == <<(Half - 1) - a[1], (Half - 1) - a[2]>>

\* x >> n for n in 0..32
U32Shr(a, n) ==
    IF n >= 32 THEN <<0, 0>>
    ELSE IF n >= 16 THEN <<0, a[1] \div Pow2(n - 16)>>
    ELSE <<a[1] \div Pow2(n), ((a[1] % Pow2(n)) * Pow2(16 - n)) + (a[2] \div Pow2(n))>>

(***************************************************************************)
(* With(value, Body) is Body(value): a value that is computed once and     *)
(* then named, as an assignment to a local variable is.                    *)
(***************************************************************************)
With(value, Body(_)) == Body(value)

(***************************************************************************)
(* ipaddress, IPv4: IPv4Address(str) and IPv4Network(str, strict=False).   *)
(* A failed construction is [ok |-> FALSE, exc |-> <the exception class>]. *)
(***************************************************************************)
Raise(exc) == [ok |-> FALSE, exc |-> exc]

\* _BaseV4._parse_octet
parse_octet(octet_str) ==
    IF Len(octet_str) = 0 THEN Raise("ValueError")
    ELSE IF ~IsDigitStr(octet_str) THEN Raise("ValueError")
    ELSE IF Len(octet_str) > 3 THEN Raise("ValueError")
    ELSE IF octet_str # <<"0">> /\ octet_str[1] = "0" THEN Raise("ValueError")
    ELSE With(IntOfDigits(octet_str, 10), LAMBDA octet_int :
             IF octet_int > 255 THEN Raise("ValueError")
             ELSE [ok |-> TRUE, value |-> octet_int])

\* _BaseV4._ip_int_from_string
v4_int_from_string(ip_str) ==
    IF Len(ip_str) = 0 THEN Raise("AddressValueError")
    ELSE With(Split(ip_str, "."), LAMBDA octets :
             IF Len(octets) # 4 THEN Raise("AddressValueError")
             ELSE With([i \in 1..4 |-> parse_octet(octets[i])], LAMBDA o :
                      IF \E i \in 1..4 : ~o[i].ok THEN Raise("AddressValueError")
                      ELSE [ok |-> TRUE,
                            value |-> <<(o[1].value * 256) + o[2].value,
                                        (o[3].value * 256) + o[4].value>>]))

\* IPv4Address(address) for a str
IPv4Address(addr_str) ==
    IF \E i \in 1..Len(addr_str) : addr_str[i] = "/" THEN Raise("AddressValueError")
    ELSE v4_int_from_string(addr_str)

\* str(IPv4Address): the four bytes in decimal, joined by "."
v4_string_from_ip_int(ip) ==
    Join(<<FormatInt(ip[1] \div 256, 10), FormatInt(ip[1] % 256, 10),
           FormatInt(ip[2] \div 256, 10), FormatInt(ip[2] % 256, 10)>>, <<".">>)

\* _split_optional_netmask and _split_addr_prefix for a str
split_addr_prefix(address) ==
    With(Split(address, "/"), LAMBDA addr :
        IF Len(addr) > 2 THEN Raise("AddressValueError")
        ELSE IF Len(addr) > 1
             THEN [ok |-> TRUE, addr |-> addr[1], mask |-> addr[2], given |-> TRUE]
        ELSE [ok |-> TRUE, addr |-> addr[1], mask |-> <<>>, given |-> FALSE])

\* _IPAddressBase._prefix_from_prefix_string
prefix_from_prefix_string(prefixlen_str, max_prefixlen) ==
    IF ~IsDigitStr(prefixlen_str) THEN Raise("NetmaskValueError")
    ELSE With(IntOfDigits(prefixlen_str, 10), LAMBDA prefixlen :
             IF ~(0 <= prefixlen /\ prefixlen <= max_prefixlen)
             THEN Raise("NetmaskValueError")
             ELSE [ok |-> TRUE, value |-> prefixlen])

RECURSIVE TrailingZeros(_)
\* the number of zero bits at the right of a non-zero int
TrailingZeros(number) ==
    IF number[2] % 2 = 1 THEN 0 ELSE 1 + TrailingZeros(U32Shr(number, 1))

\* _count_righthand_zero_bits(number, bits)
count_righthand_zero_bits(number, bits) ==
    IF number = <<0, 0>> THEN bits
    ELSE With(TrailingZeros(number), LAMBDA tz : IF tz < bits THEN tz ELSE bits)

\* _IPAddressBase._prefix_from_ip_int
prefix_from_ip_int(ip_int) ==
    With(count_righthand_zero_bits(ip_int, 32), LAMBDA trailing_zeroes :
        LET prefixlen == 32 - trailing_zeroes
            leading_ones == U32Shr(ip_int, trailing_zeroes)
            all_ones == U32Sub(U32Pow2(prefixlen), <<0, 1>>)
        IN  IF leading_ones # all_ones THEN Raise("ValueError")
            ELSE [ok |-> TRUE, value |-> prefixlen])

\* _IPAddressBase._prefix_from_ip_string: a netmask, else a hostmask
prefix_from_ip_string(ip_str) ==
    With(v4_int_from_string(ip_str), LAMBDA ip_int :
        IF ~ip_int.ok THEN Raise("NetmaskValueError")
        ELSE With(prefix_from_ip_int(ip_int.value), LAMBDA asNetmask :
                 IF asNetmask.ok THEN asNetmask
                 ELSE With(prefix_from_ip_int(U32Not(ip_int.value)), LAMBDA asHostmask :
                          IF asHostmask.ok THEN asHostmask
                          ELSE Raise("NetmaskValueError"))))

\* IPv4Network._make_netmask for a str: a prefix length, else a dotted mask
v4_make_netmask(arg) ==
    With(prefix_from_prefix_string(arg, 32), LAMBDA asPrefix :
        IF asPrefix.ok THEN asPrefix ELSE prefix_from_ip_string(arg))

\* int(network.netmask) = ALL_ONES ^ (ALL_ONES >> prefixlen)
v4_netmask(prefixlen) == U32Not(U32Shr(ALL_ONES, prefixlen))

\* int(network.hostmask) = int(netmask) ^ ALL_ONES
v4_hostmask(prefixlen) == U32Not(v4_netmask(prefixlen))

\* v4_network_of with the host bits of the address kept
v4_network_of_host_bits_kept(a, m) ==
    IF ~a.ok THEN Raise(a.exc)
    ELSE IF ~m.ok THEN Raise(m.exc)
    ELSE [ok |-> TRUE, version |-> 4, prefixlen |-> m.value,
          network_address |-> a.value]

\* IPv4Network.__init__ once the address and the mask are parsed: host bits
\* are cleared, not rejected (strict=False)
v4_network_of(a, m) ==
    IF ~a.ok THEN Raise(a.exc)
    ELSE IF ~m.ok THEN Raise(m.exc)
    ELSE [ok |-> TRUE, version |-> 4, prefixlen |-> m.value,
          network_address |-> U32And(a.value, v4_netmask(m.value))]

\* IPv4Network with a missing mask read as /24
IPv4Network_default_24(address) ==
    With(split_addr_prefix(address), LAMBDA sp :
        IF ~sp.ok THEN Raise(sp.exc)
        ELSE v4_network_of(IPv4Address(sp.addr),
                           IF sp.given THEN v4_make_netmask(sp.mask)
                           ELSE [ok |-> TRUE, value |-> 24]))

\* IPv4Network(address, strict=False)
IPv4Network(address) ==
    With(split_addr_prefix(address), LAMBDA sp :
        IF ~sp.ok THEN Raise(sp.exc)
        ELSE v4_network_of(IPv4Address(sp.addr),
                           IF sp.given THEN v4_make_netmask(sp.mask)
                           ELSE [ok |-> TRUE, value |-> 32]))

\* network.broadcast_address = network_address | hostmask
v4_broadcast_address(network) ==
    U32Or(network.network_address, v4_hostmask(network.prefixlen))

\* network.num_addresses = int(broadcast_address) - int(network_address) + 1
v4_num_addresses(network) ==
    U32Add(U32Sub(v4_broadcast_address(network), network.network_address), <<0, 1>>)

(***************************************************************************)
(* ipaddress, IPv6: what ip_network and ip_address fall back to when the   *)
(* IPv4 constructor refuses the string.  Inputs hold no "%" (scope id).    *)
(***************************************************************************)
\* _BaseV6._parse_hextet
parse_hextet(hextet_str) ==
    IF \E i \in 1..Len(hextet_str) : hextet_str[i] \notin HexChars
    THEN Raise("ValueError")
    ELSE IF Len(hextet_str) > 4 \/ Len(hextet_str) = 0 THEN Raise("ValueError")
    ELSE [ok |-> TRUE, value |-> IntOfDigits(hextet_str, 16)]

\* the eight hextets, once every part has been parsed
v6_hextets(hx) ==
    IF \E i \in 1..8 : ~hx[i].ok THEN Raise("AddressValueError")
    ELSE [ok |-> TRUE, value |-> [i \in 1..8 |-> hx[i].value]]

\* _BaseV6._ip_int_from_string with a "::" at part skip_index + 1
v6_int_with_skip(parts, skip_index) ==
    LET n == Len(parts)
        parts_hi == IF parts[1] = <<>> THEN skip_index - 1 ELSE skip_index
        parts_lo == IF parts[n] = <<>> THEN n - skip_index - 2 ELSE n - skip_index - 1
        parts_skipped == 8 - (parts_hi + parts_lo)
    IN  IF parts[1] = <<>> /\ parts_hi # 0 THEN Raise("AddressValueError")
        ELSE IF parts[n] = <<>> /\ parts_lo # 0 THEN Raise("AddressValueError")
        ELSE IF parts_skipped < 1 THEN Raise("AddressValueError")
        ELSE v6_hextets(
                 [i \in 1..8 |->
                     IF i <= parts_hi THEN parse_hextet(parts[i])
                     ELSE IF i <= parts_hi + parts_skipped
                     THEN [ok |-> TRUE, value |-> 0]
                     ELSE parse_hextet(
                              parts[n - parts_lo + (i - parts_hi - parts_skipped)])])

\* _BaseV6._ip_int_from_string, after an IPv4-style suffix has been replaced
v6_int_from_parts(parts) ==
    With({i \in 2..(Len(parts) - 1) : parts[i] = <<>>}, LAMBDA skips :
        IF Len(parts) > 9 THEN Raise("AddressValueError")
        ELSE IF Cardinality(skips) > 1 THEN Raise("AddressValueError")
        ELSE IF skips # {}
        THEN v6_int_with_skip(parts, (CHOOSE i \in skips : TRUE) - 1)
        ELSE IF Len(parts) # 8 THEN Raise("AddressValueError")
        ELSE IF parts[1] = <<>> \/ parts[8] = <<>> THEN Raise("AddressValueError")
        ELSE v6_hextets([i \in 1..8 |-> parse_hextet(parts[i])]))

\* the parts with the IPv4-style suffix replaced by its two hextets
v6_replace_suffix(parts, ipv4_int) ==
    IF ~ipv4_int.ok THEN Raise("AddressValueError")
    ELSE v6_int_from_parts(SubSeq(parts, 1, Len(parts) - 1)
                           \o <<FormatInt(ipv4_int.value[1], 16),
                                FormatInt(ipv4_int.value[2], 16)>>)

\* _BaseV6._ip_int_from_string
v6_int_from_string(ip_str) ==
    IF Len(ip_str) = 0 THEN Raise("AddressValueError")
    ELSE With(Split(ip_str, ":"), LAMBDA parts :
             IF Len(parts) < 3 THEN Raise("AddressValueError")
             ELSE IF \E i \in 1..Len(parts[Len(parts)]) : parts[Len(parts)][i] = "."
             THEN v6_replace_suffix(parts, IPv4Address(parts[Len(parts)]))
             ELSE v6_int_from_parts(parts))

\* IPv6Address(address) for a str
IPv6Address(addr_str) ==
    IF \E i \in 1..Len(addr_str) : addr_str[i] = "/" THEN Raise("AddressValueError")
    ELSE v6_int_from_string(addr_str)

\* hextet i of int(network.netmask) for a prefix length in 0..128
v6_netmask_hextet(prefixlen, i) ==
    LET k == prefixlen - (16 * (i - 1))
        ones == IF k < 0 THEN 0 ELSE IF k > 16 THEN 16 ELSE k
    IN  Half - Pow2(16 - ones)

\* hextet i of int(network.hostmask)
v6_hostmask_hextet(prefixlen, i) == (Half - 1) - v6_netmask_hextet(prefixlen, i)

\* IPv6Network.__init__ once the address and the prefix length are parsed
v6_network_of(a, m) ==
    IF ~a.ok THEN Raise(a.exc)
    ELSE IF ~m.ok THEN Raise(m.exc)
    ELSE [ok |-> TRUE, version |-> 6, prefixlen |-> m.value,
          network_address |->
              [i \in 1..8 |->
                  BitAnd16(a.value[i], v6_netmask_hextet(m.value, i), 16)]]

\* IPv6Network(address, strict=False)
IPv6Network(address) ==
    With(split_addr_prefix(address), LAMBDA sp :
        IF ~sp.ok THEN Raise(sp.exc)
        ELSE v6_network_of(IPv6Address(sp.addr),
                           IF sp.given THEN prefix_from_prefix_string(sp.mask, 128)
                           ELSE [ok |-> TRUE, value |-> 128]))

RECURSIVE ZeroRun(_, _)
\* the length of the run of zero hextets that starts at index i
ZeroRun(hextets, i) ==
    IF i > Len(hextets) \/ hextets[i] # 0 THEN 0 ELSE 1 + ZeroRun(hextets, i + 1)

\* _compress_hextets: the first longest run of zero hextets, if longer than
\* one, becomes "::"
compress_hextets(hx, run) ==
    LET best_len == CHOOSE l \in 0..8 :
                        (\E i \in 1..8 : run[i] = l) /\ (\A i \in 1..8 : run[i] <= l)
        best_start == CHOOSE i \in 1..8 :
                        run[i] = best_len /\ (\A j \in 1..(i - 1) : run[j] < best_len)
        best_end == best_start + best_len
    IN  IF best_len > 1
        THEN (IF best_start = 1 THEN <<<<>>>> ELSE <<>>)
             \o SubSeq(hx, 1, best_start - 1)
             \o <<<<>>>>
             \o SubSeq(hx, best_end, 8)
             \o (IF best_end = 9 THEN <<<<>>>> ELSE <<>>)
        ELSE hx

\* str(IPv6Address): _string_from_ip_int
v6_string_from_ip_int(hextets) ==
    Join(compress_hextets([i \in 1..8 |-> FormatInt(hextets[i], 16)],
                          [i \in 1..8 |-> ZeroRun(hextets, i)]), <<":">>)

(***************************************************************************)
(* ipaddress.ip_network(address, strict=False) and ipaddress.ip_address:   *)
(* IPv4 first, then IPv6, then ValueError.                                 *)
(***************************************************************************)
ip_network(address) ==
    With(IPv4Network(address), LAMBDA v4 :
        IF v4.ok THEN v4
        ELSE With(IPv6Network(address), LAMBDA v6 :
                 IF v6.ok THEN v6 ELSE Raise("ValueError")))

ip_address(address) ==
    With(IPv4Address(address), LAMBDA v4 :
        IF v4.ok THEN [ok |-> TRUE, version |-> 4, ip |-> v4.value]
        ELSE With(IPv6Address(address), LAMBDA v6 :
                 IF v6.ok THEN [ok |-> TRUE, version |-> 6, ip |-> v6.value]
                 ELSE Raise("ValueError")))

(***************************************************************************)
(* ipaddress, the IPv4 address properties the reports read.                *)
(***************************************************************************)
\* the str of a dotted quad given as four numbers
Quad(a, b, c, d) ==
    Join(<<FormatInt(a, 10), FormatInt(b, 10), FormatInt(c, 10), FormatInt(d, 10)>>,
         <<".">>)

\* the network a.b.c.d/p of a table of the library
Net(a, b, c, d, p) == [network_address |-> <<(a * 256) + b, (c * 256) + d>>, prefixlen |-> p]

\* _BaseNetwork.__contains__ for an address: ip & netmask == network_address
v4_contains(net, ip) == U32And(ip, v4_netmask(net.prefixlen)) = net.network_address

\* _IPv4Constants._private_networks
private_networks ==
    {Net(0, 0, 0, 0, 8), Net(10, 0, 0, 0, 8), Net(127, 0, 0, 0, 8),
     Net(169, 254, 0, 0, 16), Net(172, 16, 0, 0, 12), Net(192, 0, 0, 0, 29),
     Net(192, 0, 0, 170, 31), Net(192, 0, 2, 0, 24), Net(192, 168, 0, 0, 16),
     Net(198, 18, 0, 0, 15), Net(198, 51, 100, 0, 24), Net(203, 0, 113, 0, 24),
     Net(240, 0, 0, 0, 4), Net(255, 255, 255, 255, 32)}

public_network == Net(100, 64, 0, 0, 10)

reserved_network == Net(240, 0, 0, 0, 4)

multicast_network == Net(224, 0, 0, 0, 4)

loopback_network == Net(127, 0, 0, 0, 8)

linklocal_network == Net(169, 254, 0, 0, 16)

\* IPv4Address.is_private, .is_global
v4_address_is_private(ip) == \E net \in private_networks : v4_contains(net, ip)

v4_address_is_global(ip) == ~v4_contains(public_network, ip) /\ ~v4_address_is_private(ip)

\* _BaseNetwork.is_private: both ends of the block in one private network
v4_network_is_private(network) ==
    \E net \in private_networks :
        /\ v4_contains(net, network.network_address)
        /\ v4_contains(net, v4_broadcast_address(network))

\* IPv4Network.is_global
v4_network_is_global(network) ==
    /\ ~(/\ v4_contains(public_network, network.network_address)
         /\ v4_contains(public_network, v4_broadcast_address(network)))
    /\ ~v4_network_is_private(network)

\* _BaseNetwork.is_reserved, is_multicast, is_loopback, is_link_local
v4_network_in(net, network) ==
    /\ v4_contains(net, network.network_address)
    /\ v4_contains(net, v4_broadcast_address(network))

(***************************************************************************)
(* src/get_ip_range.py: the helpers of the reports.  The Chinese labels of *)
(* the source are written here by their English meaning.                   *)
(***************************************************************************)
\* str(network.network_address), for either version
network_address_str(network) ==
    IF network.version = 4 THEN v4_string_from_ip_int(network.network_address)
    ELSE v6_string_from_ip_int(network.network_address)

\* get_network_class: int() of the text before the first "." raises
\* ValueError when that text is not a decimal number (an IPv6 address)
get_network_class(network) ==
    With(IntOfStr(Split(network_address_str(network), ".")[1]), LAMBDA first_octet :
        IF ~first_octet.ok THEN Raise("ValueError")
        ELSE [ok |-> TRUE,
              value |-> IF first_octet.value <= 127 THEN "A"
                        ELSE IF first_octet.value <= 191 THEN "B"
                        ELSE IF first_octet.value <= 223 THEN "C"
                        ELSE IF first_octet.value <= 239 THEN "D (multicast)"
                        ELSE "E (reserved)"])

\* get_network_type: the label and the prefix length it is formatted with
get_network_type(prefix_len) ==
    IF prefix_len = 32 THEN <<"single host", 32>>
    ELSE IF prefix_len = 31 THEN <<"point-to-point link", 31>>
    ELSE IF prefix_len >= 30 THEN <<"ultra-small network", prefix_len>>
    ELSE IF prefix_len >= 24 THEN <<"small network", prefix_len>>
    ELSE IF prefix_len >= 16 THEN <<"medium network", prefix_len>>
    ELSE IF prefix_len >= 8 THEN <<"large network", prefix_len>>
    ELSE <<"very large network", prefix_len>>

\* recommend_network_use, without its typical_scenarios
recommend_network_use(network) ==
    LET prefix_len == network.prefixlen
    IN  IF prefix_len = 32
        THEN [primary_use |-> "single server or device", recommended_size |-> ""]
        ELSE IF prefix_len = 31
        THEN [primary_use |-> "point-to-point link", recommended_size |-> ""]
        ELSE IF 30 >= prefix_len /\ prefix_len >= 29
        THEN [primary_use |-> "small network", recommended_size |-> "2-14"]
        ELSE IF 28 >= prefix_len /\ prefix_len >= 25
        THEN [primary_use |-> "office network", recommended_size |-> "14-254"]
        ELSE IF 24 >= prefix_len /\ prefix_len >= 22
        THEN [primary_use |-> "campus network", recommended_size |-> "254-1022"]
        ELSE [primary_use |-> "large infrastructure", recommended_size |-> ""]

\* '.'.join(format(int(octet), '08b') for octet in s.split('.'))
binary_of(s) ==
    With(Split(s, "."), LAMBDA octets :
        Join([i \in 1..Len(octets) |->
                 ZeroFill(FormatInt(IntOfDigits(octets[i], 10), 2), 8)], <<".">>))

(***************************************************************************)
(* Python lists of addresses.  list(network.hosts()) is kept as the range  *)
(* it is built from, range(network + 1, broadcast), and its items are      *)
(* produced when a slice or the whole list is put in a report.  A list is  *)
(* built only if the interpreter can hold it: at most 2^heap_bits items.   *)
(***************************************************************************)
\* the largest list CPython can allocate: PY_SSIZE_T_MAX / sizeof(PyObject *)
PyListMaxBits == 63 - 3

SeqList(items) == [kind |-> "seq", items |-> items]

\* [str(ip) for ip in network.hosts()] for an IPv4 block of prefix <= 30
v4_hosts(network) ==
    [kind |-> "range",
     first |-> U32Add(network.network_address, <<0, 1>>),
     len |-> U32Sub(U32Sub(v4_broadcast_address(network), network.network_address),
                    <<0, 1>>)]

\* len(l) and l[i] for an index i >= 0
ListLen(l) == IF l.kind = "seq" THEN ToU32(Len(l.items)) ELSE l.len

ListAt(l, i) ==
    IF l.kind = "seq" THEN l.items[i[2] + 1]
    ELSE v4_string_from_ip_int(U32Add(l.first, i))

\* whether a list of len items can be allocated
list_fits(len, heap) == heap >= 32 \/ U32Le(len, U32Pow2(heap))

\* the number of hosts of an IPv6 block is 2^host_bits - 1 (host_bits >= 2)
v6_hosts_fit(host_bits, heap) == host_bits <= heap

SmallMin(n, k) == IF U32Le(n, ToU32(k)) THEN n[2] ELSE k

\* l[:k]
ListHead(l, k) ==
    [j \in 1..SmallMin(ListLen(l), k) |-> ListAt(l, ToU32(j - 1))]

\* l[-k:]
ListTail(l, k) ==
    LET n == ListLen(l)
        cnt == SmallMin(n, k)
        start == U32Sub(n, ToU32(cnt))
    IN  [j \in 1..cnt |-> ListAt(l, U32Add(start, ToU32(j - 1)))]

\* l[::step][:k]
ListStride(l, step, k) ==
    LET n == ListLen(l)
        cnt == Cardinality({j \in 0..(k - 1) : U32Lt(U32Mul(step, j), n)})
    IN  [j \in 1..cnt |-> ListAt(l, U32Mul(step, j - 1))]

\* the whole list, item by item
ListAll(l) == IF l.kind = "seq" THEN l.items
              ELSE [j \in 1..l.len[2] |-> ListAt(l, ToU32(j - 1))]

(***************************************************************************)
(* src/get_ip_range.py: get_ip_range.  A tool call ends in                 *)
(*   [kind |-> "report", doc |-> ...]   the dict of the try block,         *)
(*   [kind |-> "error", doc |-> ...]    the dict of the except block, or   *)
(*   [kind |-> "uncaught", exc |-> ...] an exception no except clause of   *)
(*                                      the tool catches.                  *)
(* format_json serialises the dict; the model keeps the dict.  Left out of *)
(* the dicts: the clock readings of "metadata", and the rounded floats and *)
(* the f-strings of "statistics" and "display".                            *)
(***************************************************************************)
FullListLimit == 1000

EdgeCount == 50

SampleCount == 20

PreviewCount == 10

Text(s) == [text |-> s, arg |-> <<>>]

\* the str "N/A"
NA == <<"N", "/", "A">>

\* str(e) of the ValueError of ip_network / ip_address, which quotes the input
NotANetwork(address) ==
    [text |-> "does not appear to be an IPv4 or IPv6 network", arg |-> address]

\* str(e) of the ValueError of int()
InvalidLiteral(s) == [text |-> "invalid literal for int() with base 10", arg |-> s]

Uncaught(exc) == [kind |-> "uncaught", exc |-> exc]

\* the valid_formats of the error dict of get_ip_range
valid_formats ==
    <<Quad(192, 168, 1, 0) \o <<"/", "2", "4">>,
      Quad(10, 0, 0, 0) \o <<"/", "1", "6">>,
      Quad(172, 16, 0, 0) \o <<"/", "1", "2">>,
      Quad(192, 168, 1, 100) \o <<"/", "2", "8">>>>

\* the except ValueError block of get_ip_range
get_ip_range_error(ip_with_cidr, message) ==
    [kind |-> "error",
     doc |-> [error |-> [type |-> "ValueError",
                         message |-> message,
                         suggestion |-> Text("check the address and the mask")],
              input |-> ip_with_cidr,
              examples |-> [valid_formats |-> valid_formats],
              help |-> Text("correct format: A.B.C.D/X, X an integer in 0-32")]]

\* subnet_possibilities with range(prefixlen + 1, prefixlen + 5): no min(31, .)
subnet_possibilities_unclamped(prefixlen) ==
    IF prefixlen < 30
    THEN [k \in 1..4 |->
             LET new_prefix == prefixlen + k
             IN  [new_prefix |-> new_prefix,
                  subnet_count |-> Pow2(new_prefix - prefixlen),
                  hosts_per_subnet |->
                      IF new_prefix < 31
                      THEN U32Sub(U32Pow2(32 - new_prefix), <<0, 2>>)
                      ELSE <<0, 2>>]]
    ELSE <<>>

\* the subnet_possibilities loop of get_ip_range
subnet_possibilities(prefixlen) ==
    IF prefixlen < 30
    THEN LET stop == IF 31 < prefixlen + 5 THEN 31 ELSE prefixlen + 5
         IN  [k \in 1..(stop - (prefixlen + 1)) |->
                 LET new_prefix == prefixlen + k
                 IN  [new_prefix |-> new_prefix,
                      subnet_count |-> Pow2(new_prefix - prefixlen),
                      hosts_per_subnet |->
                          IF new_prefix < 31
                          THEN U32Sub(U32Pow2(32 - new_prefix), <<0, 2>>)
                          ELSE <<0, 2>>]]
    ELSE <<>>

\* usable_range without the /31 case: a /31 block is listed as a standard one
usable_range_without_31(network) ==
    IF network.prefixlen = 32
    THEN [total_usable |-> <<0, 1>>,
          first_usable |-> v4_string_from_ip_int(network.network_address),
          last_usable |-> v4_string_from_ip_int(network.network_address),
          usable_ips |-> SeqList(<<v4_string_from_ip_int(network.network_address)>>)]
    ELSE With(v4_hosts(network), LAMBDA hosts :
             [total_usable |-> U32Sub(v4_num_addresses(network), <<0, 2>>),
              first_usable |-> IF hosts.len # <<0, 0>>
                               THEN ListAt(hosts, <<0, 0>>) ELSE NA,
              last_usable |-> IF hosts.len # <<0, 0>>
                              THEN ListAt(hosts, U32Sub(hosts.len, <<0, 1>>))
                              ELSE NA,
              usable_ips |-> hosts])

\* the usable range of get_ip_range: /32, /31, and the standard networks
usable_range(network) ==
    LET network_address == v4_string_from_ip_int(network.network_address)
        broadcast_address == v4_string_from_ip_int(v4_broadcast_address(network))
    IN  IF network.prefixlen = 32
        THEN [total_usable |-> <<0, 1>>,
              first_usable |-> network_address,
              last_usable |-> network_address,
              usable_ips |-> SeqList(<<network_address>>)]
        ELSE IF network.prefixlen = 31
        THEN [total_usable |-> <<0, 2>>,
              first_usable |-> network_address,
              last_usable |-> broadcast_address,
              usable_ips |-> SeqList(<<network_address, broadcast_address>>)]
        ELSE With(v4_hosts(network), LAMBDA hosts :
                 [total_usable |-> U32Sub(v4_num_addresses(network), <<0, 2>>),
                  first_usable |-> IF hosts.len # <<0, 0>>
                                   THEN ListAt(hosts, <<0, 0>>) ELSE NA,
                  last_usable |-> IF hosts.len # <<0, 0>>
                                  THEN ListAt(hosts, U32Sub(hosts.len, <<0, 1>>))
                                  ELSE NA,
                  usable_ips |-> hosts])

\* all_usable_ips whose stride sample is not cut to 20 items
all_usable_ips_sample_uncut(show_all_ips, total_usable, usable_ips) ==
    IF show_all_ips /\ U32Le(total_usable, ToU32(FullListLimit))
    THEN [count |-> total_usable, list |-> ListAll(usable_ips)]
    ELSE IF show_all_ips
    THEN LET twentieth == U32Div(total_usable, SampleCount)
             step == IF twentieth = <<0, 0>> THEN <<0, 1>> ELSE twentieth
         IN  [count |-> total_usable,
              note |-> Text("network too large to list every address"),
              first_50 |-> ListHead(usable_ips, EdgeCount),
              last_50 |-> ListTail(usable_ips, EdgeCount),
              sample_interval |-> ListStride(usable_ips, step, SampleCount + SampleCount)]
    ELSE [count |-> total_usable,
          note |-> Text("use show_all_ips=true to see the whole list"),
          sample |-> IF U32Lt(ToU32(PreviewCount), total_usable)
                     THEN ListHead(usable_ips, PreviewCount)
                     ELSE ListAll(usable_ips)]

\* the all_usable_ips entry of get_ip_range
all_usable_ips(show_all_ips, total_usable, usable_ips) ==
    IF show_all_ips /\ U32Le(total_usable, ToU32(FullListLimit))
    THEN [count |-> total_usable, list |-> ListAll(usable_ips)]
    ELSE IF show_all_ips
    THEN LET twentieth == U32Div(total_usable, SampleCount)
             step == IF twentieth = <<0, 0>> THEN <<0, 1>> ELSE twentieth
         IN  [count |-> total_usable,
              note |-> Text("network too large to list every address"),
              first_50 |-> ListHead(usable_ips, EdgeCount),
              last_50 |-> ListTail(usable_ips, EdgeCount),
              sample_interval |-> ListStride(usable_ips, step, SampleCount)]
    ELSE [count |-> total_usable,
          note |-> Text("use show_all_ips=true to see the whole list"),
          sample |-> IF U32Lt(ToU32(PreviewCount), total_usable)
                     THEN ListHead(usable_ips, PreviewCount)
                     ELSE ListAll(usable_ips)]

\* str(network.network_address + network.num_addresses), "N/A" past 2^32 - 1
next_network(network) ==
    With(U32Add(network.network_address, v4_num_addresses(network)), LAMBDA next :
        IF U32Le(next, ALL_ONES) THEN v4_string_from_ip_int(next) ELSE NA)

\* the dict of the try block of get_ip_range, for an IPv4 network, given
\* its local variables network_address, netmask and the usable range r
report_dict(ip_with_cidr, show_all_ips, network, network_class, network_address, netmask, r) ==
    [metadata |-> [tool |-> "get_ip_range", version |-> "2.0"],
     input |-> [original |-> ip_with_cidr,
                normalized |-> network_address \o <<"/">>
                               \o FormatInt(network.prefixlen, 10)],
     network_summary |->
       [network_address |-> network_address,
        broadcast_address |-> v4_string_from_ip_int(v4_broadcast_address(network)),
        netmask |-> netmask,
        wildcard_mask |-> v4_string_from_ip_int(v4_hostmask(network.prefixlen)),
        cidr_notation |-> <<"/">> \o FormatInt(network.prefixlen, 10),
        prefix_length |-> network.prefixlen,
        total_addresses |-> v4_num_addresses(network),
        network_class |-> network_class,
        network_type |-> get_network_type(network.prefixlen)],
     address_properties |->
       [is_private |-> v4_network_is_private(network),
        is_global |-> v4_network_is_global(network),
        is_reserved |-> v4_network_in(reserved_network, network),
        is_multicast |-> v4_network_in(multicast_network, network),
        is_loopback |-> v4_network_in(loopback_network, network),
        is_link_local |-> v4_network_in(linklocal_network, network)],
     binary_representation |->
       [network_binary |-> binary_of(network_address),
        mask_binary |-> binary_of(netmask),
        network_hex |-> network_address,
        mask_hex |-> netmask],
     usable_ip_range |->
       [first_usable_ip |-> r.first_usable,
        last_usable_ip |-> r.last_usable,
        total_usable_ips |-> r.total_usable],
     network_calculations |->
       [next_network_address |-> next_network(network),
        host_bits |-> 32 - network.prefixlen,
        network_bits |-> network.prefixlen],
     subnetting_info |->
       [possible_subnets |-> subnet_possibilities(network.prefixlen),
        max_subnets |-> IF network.prefixlen < 30
                        THEN Pow2(30 - network.prefixlen) ELSE 1,
        recommended_prefix |-> IF 28 < network.prefixlen + 4
                               THEN 28 ELSE network.prefixlen + 4],
     all_usable_ips |-> all_usable_ips(show_all_ips, r.total_usable, r.usable_ips),
     statistics |-> [recommended_use |-> recommend_network_use(network)]]

\* the try block of get_ip_range from the network class on: the hosts of a
\* standard network are listed (MemoryError if they do not fit), then the
\* dict is built
get_ip_range_report(ip_with_cidr, show_all_ips, network, network_class, heap) ==
    IF network.prefixlen < 31 /\ ~list_fits(v4_hosts(network).len, heap)
    THEN Uncaught("MemoryError")
    ELSE [kind |-> "report",
          doc |-> report_dict(ip_with_cidr, show_all_ips, network, network_class,
                              v4_string_from_ip_int(network.network_address),
                              v4_string_from_ip_int(v4_netmask(network.prefixlen)),
                              usable_range(network))]

\* the try block of get_ip_range once the network is parsed
get_ip_range_of(ip_with_cidr, show_all_ips, network, network_class, heap) ==
    IF ~network_class.ok
    THEN get_ip_range_error(ip_with_cidr,
                            InvalidLiteral(Split(network_address_str(network), ".")[1]))
    ELSE get_ip_range_report(ip_with_cidr, show_all_ips, network,
                             network_class.value, heap)

\* get_ip_range(ip_with_cidr, show_all_ips) on an interpreter that can hold
\* lists of 2^heap items
get_ip_range(ip_with_cidr, show_all_ips, heap) ==
    With(ip_network(ip_with_cidr), LAMBDA network :
        IF ~network.ok
        THEN get_ip_range_error(ip_with_cidr, NotANetwork(ip_with_cidr))
        ELSE get_ip_range_of(ip_with_cidr, show_all_ips, network,
                             get_network_class(network), heap))

(***************************************************************************)
(* src/get_ip_range.py: get_ip_range_summary.                              *)
(***************************************************************************)
\* the except ValueError block of get_ip_range_summary
summary_error(ip_with_cidr, message) ==
    [kind |-> "error",
     doc |-> [error |-> message,
              input |-> ip_with_cidr,
              help |-> [text |-> "enter a valid CIDR format, such as",
                        examples |-> <<Quad(192, 168, 1, 0) \o <<"/", "2", "4">>>>]]]

\* the usable range of get_ip_range_summary for an IPv4 network
summary_range(network) ==
    IF network.prefixlen = 32
    THEN [total_usable |-> <<0, 1>>,
          first_usable |-> v4_string_from_ip_int(network.network_address),
          last_usable |-> v4_string_from_ip_int(network.network_address)]
    ELSE IF network.prefixlen = 31
    THEN [total_usable |-> <<0, 2>>,
          first_usable |-> v4_string_from_ip_int(network.network_address),
          last_usable |-> v4_string_from_ip_int(v4_broadcast_address(network))]
    ELSE With(v4_hosts(network), LAMBDA hosts :
             [total_usable |-> U32Sub(v4_num_addresses(network), <<0, 2>>),
              first_usable |-> ListAt(hosts, <<0, 0>>),
              last_usable |-> ListAt(hosts, U32Sub(hosts.len, <<0, 1>>))])

\* whether the list(network.hosts()) of get_ip_range_summary can be built:
\* it is asked for unless the prefix length is 32 or 31, whatever the version
summary_hosts_fit(network, heap) ==
    IF network.prefixlen \in {31, 32} THEN TRUE
    ELSE IF network.version = 4 THEN list_fits(v4_hosts(network).len, heap)
    ELSE network.prefixlen >= 127 \/ v6_hosts_fit(128 - network.prefixlen, heap)

\* the dict of the try block of get_ip_range_summary, given its usable range r
summary_dict(ip_with_cidr, network, network_class, r) ==
    [input |-> ip_with_cidr,
     summary |->
       [network |-> v4_string_from_ip_int(network.network_address),
        netmask |-> v4_string_from_ip_int(v4_netmask(network.prefixlen)),
        cidr |-> <<"/">> \o FormatInt(network.prefixlen, 10),
        usable_range |-> r.first_usable \o <<" ", "-", " ">> \o r.last_usable,
        total_addresses |-> v4_num_addresses(network),
        usable_hosts |-> r.total_usable,
        broadcast |-> v4_string_from_ip_int(v4_broadcast_address(network)),
        network_class |-> network_class,
        network_type |-> get_network_type(network.prefixlen)],
     quick_info |->
       [is_private |-> v4_network_is_private(network),
        is_public |-> v4_network_is_global(network),
        host_bits |-> 32 - network.prefixlen]]

\* the try block of get_ip_range_summary once the hosts are listed: the
\* dict is built, and get_network_class may raise ValueError
summary_of(ip_with_cidr, network, network_class) ==
    IF ~network_class.ok
    THEN summary_error(ip_with_cidr,
                       InvalidLiteral(Split(network_address_str(network), ".")[1]))
    ELSE [kind |-> "report",
          doc |-> summary_dict(ip_with_cidr, network, network_class.value,
                               summary_range(network))]

\* get_ip_range_summary(ip_with_cidr) on an interpreter that can hold lists
\* of 2^heap items
get_ip_range_summary(ip_with_cidr, heap) ==
    With(ip_network(ip_with_cidr), LAMBDA network :
        IF ~network.ok THEN summary_error(ip_with_cidr, NotANetwork(ip_with_cidr))
        ELSE IF ~summary_hosts_fit(network, heap) THEN Uncaught("MemoryError")
        ELSE summary_of(ip_with_cidr, network, get_network_class(network)))

(***************************************************************************)
(* src/get_ip_range.py: validate_ip.                                       *)
(***************************************************************************)
RECURSIVE AddOne(_)
\* n + 1 on a sequence of 16-bit digits, most significant first
AddOne(digits) ==
    IF Len(digits) = 0 THEN <<1>>
    ELSE IF digits[Len(digits)] < Half - 1
    THEN SubSeq(digits, 1, Len(digits) - 1) \o <<digits[Len(digits)] + 1>>
    ELSE AddOne(SubSeq(digits, 1, Len(digits) - 1)) \o <<0>>

\* network.broadcast_address of an IPv6 network
v6_broadcast_address(network) ==
    [i \in 1..8 |-> BitOr16(network.network_address[i],
                            v6_hostmask_hextet(network.prefixlen, i), 16)]

\* network.num_addresses of an IPv6 network, as nine 16-bit digits
v6_num_addresses(network, broadcast) ==
    AddOne([i \in 1..8 |-> broadcast[i] - network.network_address[i]])

\* the network_info of validate_ip
network_info(network) ==
    IF network.version = 4
    THEN [network_address |-> v4_string_from_ip_int(network.network_address),
          broadcast_address |-> v4_string_from_ip_int(v4_broadcast_address(network)),
          netmask |-> v4_string_from_ip_int(v4_netmask(network.prefixlen)),
          cidr |-> <<"/">> \o FormatInt(network.prefixlen, 10),
          total_addresses |-> v4_num_addresses(network)]
    ELSE [network_address |-> v6_string_from_ip_int(network.network_address),
          broadcast_address |-> v6_string_from_ip_int(v6_broadcast_address(network)),
          netmask |-> v6_string_from_ip_int(
                          [i \in 1..8 |-> v6_netmask_hextet(network.prefixlen, i)]),
          cidr |-> <<"/">> \o FormatInt(network.prefixlen, 10),
          total_addresses |-> v6_num_addresses(network, v6_broadcast_address(network))]

\* the except blocks of validate_ip: the dict of a network, or of an error
validate_network_result(ip_input, network) ==
    IF network.ok
    THEN [kind |-> "report",
          doc |-> [input |-> ip_input,
                   type |-> "network",
                   valid |-> TRUE,
                   version |-> network.version,
                   network_info |-> network_info(network)]]
    ELSE [kind |-> "error",
          doc |-> [input |-> ip_input,
                   valid |-> FALSE,
                   error |-> NotANetwork(ip_input),
                   suggestions |->
                     [text |-> "check the address format; the mask is in 0-32; examples",
                      examples |-> <<Quad(192, 168, 1, 1),
                                     Quad(192, 168, 1, 0) \o <<"/", "2", "4">>>>]]]

\* the second try block of validate_ip
validate_as_network(ip_input) == validate_network_result(ip_input, ip_network(ip_input))

\* the dict of the first try block of validate_ip; its "binary" needs int()
\* of every "."-separated piece of str(ip), and the ValueError of a piece
\* that is no decimal number is caught by the except clause of the block
single_ip_result(ip_input, ip, decimal) ==
    IF \E piece \in {Split(decimal, ".")[i] : i \in 1..Len(Split(decimal, "."))} :
           ~IntOfStr(piece).ok
    THEN validate_as_network(ip_input)
    ELSE [kind |-> "report",
          doc |-> [input |-> ip_input,
                   type |-> "single_ip",
                   valid |-> TRUE,
                   version |-> ip.version,
                   properties |->
                     [is_private |-> v4_address_is_private(ip.ip),
                      is_global |-> v4_address_is_global(ip.ip),
                      is_reserved |-> v4_contains(reserved_network, ip.ip),
                      is_multicast |-> v4_contains(multicast_network, ip.ip),
                      is_loopback |-> v4_contains(loopback_network, ip.ip),
                      is_link_local |-> v4_contains(linklocal_network, ip.ip)],
                   formats |-> [decimal |-> decimal,
                                binary |-> binary_of(decimal),
                                hex |-> decimal]]]

\* validate_ip(ip_input): a single address first, then a network
validate_ip(ip_input) ==
    With(ip_address(ip_input), LAMBDA ip :
        IF ~ip.ok THEN validate_as_network(ip_input)
        ELSE single_ip_result(ip_input, ip,
                              IF ip.version = 4 THEN v4_string_from_ip_int(ip.ip)
                              ELSE v6_string_from_ip_int(ip.ip)))

(***************************************************************************)
(* The tool calls.  A request is a str; each tool is called on it once, in *)
(* any order, and keeps no state between calls.  The interpreter's memory  *)
(* is the environment's: it holds lists of up to 2^heap_bits items, which  *)
(* is either the little of a small machine or all CPython allows.          *)
(***************************************************************************)
VARIABLES ip_input, show_all_ips, heap_bits, range_result, summary_result, validate_result

vars == <<ip_input, show_all_ips, heap_bits, range_result, summary_result, validate_result>>

\* how many of the addresses of AddrList the requests are built from
MaxAddrs == 8

\* the list capacity of a small machine, in bits
LowHeapBits == 24

AddrList ==
    <<Quad(192, 168, 1, 7), Quad(10, 0, 0, 5), Quad(8, 8, 8, 8), Quad(172, 16, 5, 9),
      Quad(224, 0, 0, 1), Quad(255, 255, 255, 255), Quad(100, 64, 1, 1),
      Quad(128, 0, 0, 0), Quad(240, 0, 0, 1), Quad(127, 0, 0, 1), Quad(0, 0, 0, 0),
      Quad(169, 254, 3, 3), Quad(191, 255, 255, 255), Quad(223, 1, 1, 1),
      Quad(239, 1, 1, 1), Quad(192, 168, 1, 4)>>

Addrs == {AddrList[i] : i \in 1..(IF MaxAddrs < Len(AddrList) THEN MaxAddrs ELSE Len(AddrList))}

\* nothing, "/0" .. "/33", and masks that are not a plain prefix length
Suffixes ==
    {<<>>} \cup {<<"/">> \o FormatInt(p, 10) : p \in 0..33}
    \cup {<<"/">>, <<"/", "x">>, <<"/", "0", "2", "4">>, <<"/", "-", "1">>,
          <<"/">> \o Quad(255, 255, 254, 0), <<"/">> \o Quad(0, 0, 0, 255),
          <<"/">> \o Quad(255, 0, 255, 0)}

\* malformed strs and IPv6 strs
OddInputs ==
    {
     <<>>,
     <<"a", "b", "c">>,
     <<"1", ".", "2", ".", "3">>,
     <<"1", ".", "2", ".", "3", ".", "4", ".", "5">>,
     <<"0", "1", ".", "2", ".", "3", ".", "4">>,
     <<"1", "9", "2", ".", "1", "6", "8", ".", "1", ".", "2", "5", "6", "/", "2", "4">>,
     <<"1", ".", "2", ".", "3", ".", "4", "/", "1", "/", "2">>,
     <<"1", ".", "2", ".", "3", ".", "4", " ">>,
     <<":", ":", "1">>,
     <<":", ":", "/", "0">>,
     <<":", ":", "/", "6", "4">>,
     <<":", ":", "/", "6", "8">>,
     <<":", ":", "/", "1", "0", "0">>,
     <<":", ":", "/", "1", "2", "7">>,
     <<":", ":", "/", "3", "1">>,
     <<":", ":", "/", "3", "2">>,
     <<":", ":", "/", "1", "2", "9">>,
     <<"f", "e", "8", "0", ":", ":", "1", "/", "6", "4">>,
     <<":", ":", "f", "f", "f", "f", ":", "1", ".", "2", ".", "3", ".", "4">>,
     <<"1", ":", "2", ":", "3", ":", "4", ":", "5", ":", "6", ":", "7", ":", "8">>,
     <<"1", ":", ":", "2", ":", ":", "3">>,
     <<":", ":", ":">>
    }

Inputs == {a \o sfx : a \in Addrs, sfx \in Suffixes} \cup OddInputs

Pending == [kind |-> "pending"]

Init ==
    /\ ip_input \in Inputs
    /\ heap_bits \in {LowHeapBits, PyListMaxBits}
    /\ show_all_ips = FALSE
    /\ range_result = Pending
    /\ summary_result = Pending
    /\ validate_result = Pending

CallGetIpRange ==
    /\ range_result = Pending
    /\ \E flag \in BOOLEAN :
          /\ show_all_ips' = flag
          /\ range_result' = get_ip_range(ip_input, flag, heap_bits)
    /\ UNCHANGED <<ip_input, heap_bits, summary_result, validate_result>>

CallGetIpRangeSummary ==
    /\ summary_result = Pending
    /\ summary_result' = get_ip_range_summary(ip_input, heap_bits)
    /\ UNCHANGED <<ip_input, show_all_ips, heap_bits, range_result, validate_result>>

CallValidateIp ==
    /\ validate_result = Pending
    /\ validate_result' = validate_ip(ip_input)
    /\ UNCHANGED <<ip_input, show_all_ips, heap_bits, range_result, summary_result>>

Next == CallGetIpRange \/ CallGetIpRangeSummary \/ CallValidateIp

Spec == Init /\ [][Next]_vars

(***************************************************************************)
(* The claims.  The parsed block of the request is ip_network(ip_input);   *)
(* the reports are read field by field, and their strs are parsed back.    *)
(***************************************************************************)
RangeReported == range_result.kind = "report"

SummaryReported == summary_result.kind = "report"

HasSlash(s) == \E i \in 1..Len(s) : s[i] = "/"

\* the three-tier table for the block network: total, first, last and count
UsableRow(network, total, first, last, count) ==
    LET p == network.prefixlen
        net == network.network_address
        bcast == U32Or(net, U32Sub(U32Pow2(32 - p), <<0, 1>>))
    IN  /\ total = U32Pow2(32 - p)
        /\ p = 32 => /\ first = v4_string_from_ip_int(net)
                     /\ last = v4_string_from_ip_int(net)
                     /\ count = <<0, 1>>
        /\ p = 31 => /\ first = v4_string_from_ip_int(net)
                     /\ last = v4_string_from_ip_int(bcast)
                     /\ count = <<0, 2>>
        /\ p <= 30 => /\ first = v4_string_from_ip_int(U32Add(net, <<0, 1>>))
                      /\ last = v4_string_from_ip_int(U32Sub(bcast, <<0, 1>>))
                      /\ count = U32Sub(U32Pow2(32 - p), <<0, 2>>)

UsableRowsOf(network) ==
    /\ RangeReported =>
         UsableRow(network,
                   range_result.doc.network_summary.total_addresses,
                   range_result.doc.usable_ip_range.first_usable_ip,
                   range_result.doc.usable_ip_range.last_usable_ip,
                   range_result.doc.usable_ip_range.total_usable_ips)
    /\ SummaryReported =>
         \E first, last \in {v4_string_from_ip_int(network.network_address),
                             v4_string_from_ip_int(U32Add(network.network_address, <<0, 1>>)),
                             v4_string_from_ip_int(v4_broadcast_address(network)),
                             v4_string_from_ip_int(U32Sub(v4_broadcast_address(network), <<0, 1>>))} :
             /\ summary_result.doc.summary.usable_range = first \o <<" ", "-", " ">> \o last
             /\ UsableRow(network, summary_result.doc.summary.total_addresses,
                          first, last, summary_result.doc.summary.usable_hosts)

\* C1: every report of get_ip_range and of get_ip_range_summary for an IPv4
\* block of prefix length p gives total_addresses = 2^(32-p) and the usable
\* range of the three-tier table: p = 32 the network address twice and count
\* 1; p = 31 the network and the broadcast address and count 2; p <= 30 the
\* network address + 1, the broadcast address - 1 and count 2^(32-p) - 2.
C1_UsableRangeTable == With(ip_network(ip_input), UsableRowsOf)

\* C1 witness: both tools have reported 10.0.0.5/8, a block of prefix <= 30
C1_Witness ==
    /\ ip_input = Quad(10, 0, 0, 5) \o <<"/", "8">>
    /\ RangeReported
    /\ SummaryReported
    /\ range_result.doc.usable_ip_range.first_usable_ip = Quad(10, 0, 0, 1)
    /\ summary_result.doc.summary.usable_hosts = <<255, 65534>>

MaskedBlock(address, net, bcast, netmask, hostmask, p) ==
    /\ net.ok /\ bcast.ok /\ netmask.ok /\ hostmask.ok
    /\ hostmask.value = U32Sub(U32Pow2(32 - p), <<0, 1>>)
    /\ hostmask.value = U32Not(netmask.value)
    /\ U32And(net.value, hostmask.value) = <<0, 0>>
    /\ bcast.value = U32Or(net.value, hostmask.value)
    /\ address.ok => net.value = U32And(address.value, netmask.value)
    /\ p = 32 => hostmask.value = <<0, 0>> /\ bcast.value = net.value

\* C2: in every report of get_ip_range the network address has no host bit
\* (network AND hostmask = 0), it is the request's address with its host
\* bits cleared, the broadcast address is network OR hostmask, and at prefix
\* length 32 the hostmask is 0 and the broadcast address is the network
\* address.
C2_NetworkAndBroadcast ==
    RangeReported =>
        MaskedBlock(IPv4Address(Split(ip_input, "/")[1]),
                    IPv4Address(range_result.doc.network_summary.network_address),
                    IPv4Address(range_result.doc.network_summary.broadcast_address),
                    IPv4Address(range_result.doc.network_summary.netmask),
                    IPv4Address(range_result.doc.network_summary.wildcard_mask),
                    range_result.doc.network_summary.prefix_length)

\* C2 witness: 10.0.0.5/8, an address with stray host bits, is reported as
\* the block 10.0.0.0 - 10.255.255.255
C2_Witness ==
    /\ ip_input = Quad(10, 0, 0, 5) \o <<"/", "8">>
    /\ RangeReported
    /\ range_result.doc.network_summary.network_address = Quad(10, 0, 0, 0)
    /\ range_result.doc.network_summary.broadcast_address = Quad(10, 255, 255, 255)

\* C3: no tool call ends with an uncaught exception: each ends with a report
\* or an error document.
C3_NoUncaughtFailure ==
    /\ range_result.kind \in {"pending", "report", "error"}
    /\ summary_result.kind \in {"pending", "report", "error"}
    /\ validate_result.kind \in {"pending", "report", "error"}

\* an error kind is a "type" entry, of the document or of its "error" entry
HasErrorKind(doc) == "type" \in (DOMAIN doc \cup DOMAIN doc.error)

\* a message is a text, the "error" entry or its "message" entry
HasMessage(doc) ==
    \/ "text" \in DOMAIN doc.error
    \/ "message" \in DOMAIN doc.error /\ "text" \in DOMAIN doc.error.message

\* C4: every error document of the three tools carries an error kind, a
\* message, the original input and example valid inputs.
C4_ErrorDocumentFields ==
    /\ range_result.kind = "error" =>
          /\ HasErrorKind(range_result.doc)
          /\ HasMessage(range_result.doc)
          /\ range_result.doc.input = ip_input
          /\ range_result.doc.examples.valid_formats # <<>>
    /\ summary_result.kind = "error" =>
          /\ HasErrorKind(summary_result.doc)
          /\ HasMessage(summary_result.doc)
          /\ summary_result.doc.input = ip_input
          /\ summary_result.doc.help.examples # <<>>
    /\ validate_result.kind = "error" =>
          /\ HasErrorKind(validate_result.doc)
          /\ HasMessage(validate_result.doc)
          /\ validate_result.doc.input = ip_input
          /\ validate_result.doc.suggestions.examples # <<>>

\* the cause IPv4Network gives for refusing the request: the address part
\* (AddressValueError) or the mask part (NetmaskValueError)
KindOfCause(v4, type) ==
    /\ v4.exc = "AddressValueError" => type = "InvalidFormat"
    /\ v4.exc = "NetmaskValueError" => type = "InvalidPrefix"

\* C5: the error kind of a rejected input names the cause: InvalidFormat
\* when the address part is refused (octet count, octet range), and
\* InvalidPrefix when the address part is fine and the prefix is refused.
C5_ErrorKindNamesCause ==
    (range_result.kind = "error" /\ ~ip_network(ip_input).ok) =>
        KindOfCause(IPv4Network(ip_input), range_result.doc.error.type)

\* C6: validate_ip reports a single address exactly when the input parses as
\* a bare address, a network exactly when it does not but parses as a
\* network, and valid = false with an error and suggestions exactly when
\* both parses fail.
C6_ValidateIpCases ==
    validate_result # Pending =>
        /\ (validate_result.kind = "report" /\ validate_result.doc.type = "single_ip")
              <=> ip_address(ip_input).ok
        /\ (validate_result.kind = "report" /\ validate_result.doc.type = "network")
              <=> (~ip_address(ip_input).ok /\ ip_network(ip_input).ok)
        /\ (validate_result.kind = "error" /\ ~validate_result.doc.valid
            /\ {"error", "suggestions"} \subseteq DOMAIN validate_result.doc)
              <=> (~ip_address(ip_input).ok /\ ~ip_network(ip_input).ok)

\* the int of an address str of a report
IntOfAddr(s) == IPv4Address(s).value

\* the items of a sample are evenly spaced, step apart
EvenlySpaced(sample, step) ==
    \A i \in 1..(Len(sample) - 1) :
        IntOfAddr(sample[i + 1]) = U32Add(IntOfAddr(sample[i]), step)

ListingBounded(count, first, last, au) ==
    /\ au.count = count
    /\ "list" \in DOMAIN au => show_all_ips /\ U32Le(count, ToU32(FullListLimit))
    /\ (show_all_ips /\ U32Lt(ToU32(FullListLimit), count)) =>
          /\ DOMAIN au = {"count", "note", "first_50", "last_50", "sample_interval"}
          /\ Len(au.first_50) = EdgeCount /\ au.first_50[1] = first
          /\ Len(au.last_50) = EdgeCount /\ au.last_50[EdgeCount] = last
          /\ EvenlySpaced(au.first_50, <<0, 1>>) /\ EvenlySpaced(au.last_50, <<0, 1>>)
          /\ Len(au.sample_interval) <= SampleCount
          /\ au.sample_interval[1] = first
          /\ EvenlySpaced(au.sample_interval, U32Div(count, SampleCount))
    /\ (show_all_ips /\ U32Le(count, ToU32(FullListLimit))) =>
          /\ DOMAIN au = {"count", "list"}
          /\ ToU32(Len(au.list)) = count
          /\ au.list[1] = first /\ au.list[Len(au.list)] = last
          /\ EvenlySpaced(au.list, <<0, 1>>)
    /\ ~show_all_ips =>
          /\ DOMAIN au = {"count", "note", "sample"}
          /\ Len(au.sample) <= PreviewCount
          /\ ToU32(Len(au.sample)) = count \/ Len(au.sample) = PreviewCount
          /\ au.sample[1] = first
          /\ EvenlySpaced(au.sample, <<0, 1>>)

\* C7: the addresses listed in a report of get_ip_range are bounded: with
\* show_all_ips and more than 1000 usable addresses there is no full list
\* but the count, the first 50, the last 50 and an evenly spaced sample of
\* at most 20; with at most 1000 the full list is there only if show_all_ips
\* is true; without show_all_ips there is a preview of at most 10 addresses
\* and a note.
C7_ListingBounded ==
    RangeReported =>
        ListingBounded(range_result.doc.usable_ip_range.total_usable_ips,
                       range_result.doc.usable_ip_range.first_usable_ip,
                       range_result.doc.usable_ip_range.last_usable_ip,
                       range_result.doc.all_usable_ips)

\* C7 witness: a report with show_all_ips of a block of more than 1000 usable
\* addresses whose sample holds 20 of them
C7_Witness ==
    /\ RangeReported
    /\ show_all_ips
    /\ U32Lt(ToU32(FullListLimit), range_result.doc.usable_ip_range.total_usable_ips)
    /\ Len(range_result.doc.all_usable_ips.sample_interval) = SampleCount

SameBlock(network, again, doc) ==
    /\ again.ok /\ again = network
    /\ v4_string_from_ip_int(again.network_address) = doc.network_summary.network_address
    /\ again.prefixlen = doc.network_summary.prefix_length
    /\ ~HasSlash(doc.input.original) => again.prefixlen = 32

\* C8: parsing the normalized input of a report (network address "/" prefix
\* length) gives the network address and the prefix length of the block the
\* request was parsed to; a request without "/" is a block of prefix length
\* 32.
C8_RoundTrip ==
    RangeReported =>
        SameBlock(ip_network(ip_input), ip_network(range_result.doc.input.normalized),
                  range_result.doc)

\* C8 witness: a request without "/" was reported as a /32 block
C8_Witness ==
    /\ RangeReported
    /\ ~HasSlash(ip_input)
    /\ range_result.doc.input.normalized = ip_input \o <<"/", "3", "2">>

Suggestions(L, total, s) ==
    /\ L < 30 =>
          /\ Len(s) = (IF L + 4 < 30 THEN L + 4 ELSE 30) - L
          /\ Len(s) <= 4
          /\ \A i \in 1..Len(s) :
                /\ s[i].new_prefix = L + i
                /\ s[i].subnet_count = 2 ^ i
                /\ s[i].hosts_per_subnet = U32Sub(U32Pow2(32 - (L + i)), <<0, 2>>)
                /\ U32Mul(U32Add(s[i].hosts_per_subnet, <<0, 2>>), s[i].subnet_count) = total
    /\ L >= 30 => s = <<>>

\* C9: the subnetting suggestions of a report of a block of prefix length
\* L < 30 are the prefixes L < p <= min(30, L + 4) in ascending order, at
\* most 4, each with subnet_count 2^(p-L) and hosts_per_subnet 2^(32-p) - 2,
\* so that subnet_count * (hosts_per_subnet + 2) is the total address count;
\* for L >= 30 there is none.
C9_SubnetSuggestions ==
    RangeReported =>
        Suggestions(range_result.doc.network_summary.prefix_length,
                    range_result.doc.network_summary.total_addresses,
                    range_result.doc.subnetting_info.possible_subnets)

\* C9 witness: a /28 block is reported with the two suggestions /29 and /30
C9_Witness ==
    /\ RangeReported
    /\ range_result.doc.network_summary.prefix_length = 28
    /\ Len(range_result.doc.subnetting_info.possible_subnets) = 2
    /\ range_result.doc.subnetting_info.possible_subnets[2].new_prefix = 30

SameFacts(r, s) ==
    /\ r.network_summary.network_address = s.summary.network
    /\ r.network_summary.netmask = s.summary.netmask
    /\ r.network_summary.cidr_notation = s.summary.cidr
    /\ r.network_summary.broadcast_address = s.summary.broadcast
    /\ r.network_summary.total_addresses = s.summary.total_addresses
    /\ r.usable_ip_range.first_usable_ip \o <<" ", "-", " ">>
         \o r.usable_ip_range.last_usable_ip = s.summary.usable_range
    /\ r.usable_ip_range.total_usable_ips = s.summary.usable_hosts
    /\ r.network_summary.network_class = s.summary.network_class
    /\ r.network_summary.network_type = s.summary.network_type
    /\ r.address_properties.is_private = s.quick_info.is_private
    /\ r.address_properties.is_global = s.quick_info.is_public

\* C10: get_ip_range and get_ip_range_summary agree on every input: one
\* returns an error document exactly when the other does, one returns a
\* report exactly when the other does, and the two reports give the same
\* facts.
C10_ToolsAgree ==
    (range_result # Pending /\ summary_result # Pending) =>
        /\ range_result.kind = "error" <=> summary_result.kind = "error"
        /\ range_result.kind = "report" <=> summary_result.kind = "report"
        /\ (RangeReported /\ SummaryReported) =>
              SameFacts(range_result.doc, summary_result.doc)

=============================================================================
